---- MODULE Spec2Model ----
\* Model of github.com/wvell/messages: the key extractor of extractor.go
\* (TranslationKeysFromSourceCode), the msgextractor command of
\* cmd/msgextractor/main.go (collectTranslationsRecursive, combineTranslations)
\* and the catalog reader the command is compiled against, the catalog store of
\* readfile.go and the translator (NewTranslator, Translator.Translate).
EXTENDS Integers, Sequences, FiniteSets, TLC

\* ------------------------------------------------------------------------
\* Bounds
\* ------------------------------------------------------------------------
\* Largest number of source statements (forms) in a whole tree.
MaxForms == 2
\* Largest number of entries (messages and transformer groups) in the catalog
\* directory before the first run.
MaxEntries == 2

VARIABLES
    api,              \* the entry point exercised: "lib", "cli", "main", "list",
                      \* "read", "write" or "translate"
    tree,             \* the source tree: a sequence of directories
    pc,               \* "start", "combine" or "done"
    translations,     \* the keys in discovery order, before deduplication
    result,           \* the key list returned (activeTranslations in main)
    err,              \* "nil" or the error returned
    defaultLanguage,  \* the -default-lang argument
    disk,             \* the catalog directory: file name -> content
    diskBefore,       \* disk when the current run of main started
    second,           \* TRUE in the second run of main
    failed,           \* the files whose os.WriteFile failed
    entries,          \* the directory entries TranslationFilesFromDir lists
    listed,           \* the language id -> file name map it returns
    data,             \* the bytes of a catalog file: its members in file order
    rawMessages,      \* the RawMessages a catalog file was read into
    marshalled,       \* the outputs of RawMessages.MarshalJSON so far
    languages,        \* Translator.languages: language id -> parsed catalog
    ctxLang,          \* the LanguageID in the context of a Translate call
    request,          \* the key and the replacements of a Translate call
    selected,         \* the id of the catalog Translator.messages returned
    out               \* the string Translate returned

vars == <<api, tree, pc, translations, result, err, defaultLanguage, disk,
          diskBefore, second, failed, entries, listed, data, rawMessages,
          marshalled, languages, ctxLang, request, selected, out>>

\* The variables of the calls into the catalog store, and their value while
\* an extraction or msgextractor runs.
translateVars == <<languages, ctxLang, request, selected, out>>
TranslateIdle ==
    languages = <<>> /\ ctxLang = <<>> /\ request = <<>> /\ selected = <<>> /\ out = <<>>
storeVars == <<entries, listed, data, rawMessages, marshalled, translateVars>>
StoreIdle ==
    /\ entries = <<>> /\ listed = <<>> /\ data = <<>> /\ rawMessages = <<>>
    /\ marshalled = <<>>
    /\ TranslateIdle

\* ------------------------------------------------------------------------
\* Keys
\* ------------------------------------------------------------------------
\* extractor.go (appended translator source): attributesKey = "attributes".
attributesKey == "attributes"
\* extractor.go:17, the marker type's qualified name.
keyType == "github.com/wvell/messages.Key"

\* The key texts used in source trees and catalog files, in ascending
\* lexical order.
KeyOrder == <<"attributes", "first_name", "login", "street", "welcome", "zipcode">>
Keys == {KeyOrder[i] : i \in 1..Len(KeyOrder)}
Rank(k) == CHOOSE i \in 1..Len(KeyOrder) : KeyOrder[i] = k
\* Go's string comparison restricted to the key texts.
Less(a, b) == Rank(a) < Rank(b)

Range(s) == {s[i] : i \in 1..Len(s)}

IsSorted(s) == \A i \in 1..Len(s) : \A j \in 1..Len(s) : i < j => ~Less(s[j], s[i])
NoDuplicates(s) == \A i \in 1..Len(s) : \A j \in 1..Len(s) : i # j => s[i] # s[j]

\* ------------------------------------------------------------------------
\* Syntax trees with type information (go/ast, go/types as used by the code)
\* ------------------------------------------------------------------------
NoFun == [kind |-> "-", name |-> "-", hasType |-> FALSE, isSig |-> FALSE,
          params |-> <<>>, xIdent |-> FALSE, xType |-> "-"]

\* A called function: kind is the shape of CallExpr.Fun, params the types of
\* the signature's parameters, xIdent/xType describe the receiver of a selector.
Fun(kind, name, isSig, params, xIdent, xType) ==
    [kind |-> kind, name |-> name, hasType |-> TRUE, isSig |-> isSig,
     params |-> params, xIdent |-> xIdent, xType |-> xType]

\* An expression node. value: the text of a literal or the value of the
\* constant an identifier denotes; obj: the kind of object an identifier
\* denotes; decl: the kind of its declaration (Ident.Obj.Decl); sub: the
\* declaration's Values / Rhs, or a call's arguments.
Expr(kind, value, obj, decl, sub, fun) ==
    [kind |-> kind, value |-> value, obj |-> obj, decl |-> decl,
     sub |-> sub, fun |-> fun]

Lit(k) == Expr("BasicLit", k, "-", "-", <<>>, NoFun)
ConstIdent(k) == Expr("Ident", k, "Const", "-", <<>>, NoFun)
VarIdent(decl, values) == Expr("Ident", "", "Var", decl, values, NoFun)
NilIdent == Expr("Ident", "", "Nil", "-", <<>>, NoFun)
TypeExpr == Expr("SelectorExpr", "", "-", "-", <<>>, NoFun)
CallExpr(fun, args) == Expr("CallExpr", "", "-", "-", args, fun)

\* One entry of types.Info.Types: the expression, its type and its constant
\* value (hasValue = FALSE is a nil Value).
TypeEntry(expr, type, hasValue, value) ==
    [expr |-> expr, type |-> type, hasValue |-> hasValue, value |-> value]

\* The functions client code calls.
\* func Translate(key messages.Key, replacements map[string]interface{}) string
FnTranslate == Fun("Ident", "Translate", TRUE, <<keyType, "map">>, FALSE, "-")
\* func SameSignature(key string, replacements map[string]interface{}) string
FnSameSignature == Fun("Ident", "SameSignature", TRUE, <<"string", "map">>, FALSE, "-")
\* func wrap(s string) messages.Key
FnWrap == Fun("Ident", "wrap", TRUE, <<"string">>, FALSE, "-")
\* func Pair(first, second messages.Key) string
FnPair == Fun("Ident", "Pair", TRUE, <<keyType, keyType>>, FALSE, "-")
\* the conversion messages.Key(x): the "callee" is a type, not a signature
FnKeyConv == Fun("Selector", "Key", FALSE, <<>>, TRUE, "-")
\* func (t *Translator) Translate(ctx context.Context, key Key, replacements map[string]any) string
FnMethodTranslate ==
    Fun("Selector", "Translate", TRUE, <<"context", keyType, "map">>, TRUE,
        "*github.com/wvell/messages.Translator")

\* ------------------------------------------------------------------------
\* extractor.go: the Literal Resolver
\* ------------------------------------------------------------------------
RECURSIVE getValueFromExpr(_)
RECURSIVE FirstResolved(_)

\* The loops of extractor.go:155-161 and 172-177: the first value that
\* resolves to a non-empty string.
FirstResolved(exprs) ==
    IF exprs = <<>> THEN ""
    ELSE LET v == getValueFromExpr(Head(exprs))
         IN IF v # "" THEN v ELSE FirstResolved(Tail(exprs))

\* The variant of the resolver that does not look through identifiers.
getValueFromExprLiteralOnly(expr) ==
    IF expr.kind = "BasicLit" THEN expr.value ELSE ""

getValueFromExpr(expr) ==
    CASE expr.kind = "BasicLit" -> expr.value
      [] expr.kind = "Ident" ->
            CASE expr.obj = "Const" -> expr.value
              [] expr.obj = "Var" ->
                    CASE expr.decl = "ValueSpec" -> FirstResolved(expr.sub)
                      [] expr.decl = "AssignStmt" -> getValueFromExpr(expr.sub[1])
                      [] OTHER -> ""
              [] OTHER -> ""
      [] expr.kind = "CallExpr" -> FirstResolved(expr.sub)
      [] OTHER -> ""

\* extractor.go:122-129: the first marker-typed parameter whose argument
\* resolves.
RECURSIVE FirstKeyParam(_, _, _)
FirstKeyParam(params, args, i) ==
    IF i > Len(params) THEN ""
    ELSE IF params[i] = keyType /\ getValueFromExpr(args[i]) # ""
         THEN getValueFromExpr(args[i])
         ELSE FirstKeyParam(params, args, i + 1)

translationKeysFromCallExpr(fun, args) ==
    IF ~fun.hasType THEN ""
    ELSE IF ~fun.isSig THEN ""
    ELSE IF Len(args) # Len(fun.params) THEN ""
    ELSE FirstKeyParam(fun.params, args, 1)

processCallExpr(call) ==
    IF call.fun.kind = "Ident" THEN translationKeysFromCallExpr(call.fun, call.sub)
    ELSE IF call.fun.kind # "Selector" THEN ""
    ELSE translationKeysFromCallExpr(call.fun, call.sub)

\* extractor.go:66-75, the body of the loop over pkg.TypesInfo.Types: the
\* keys one entry appends to translations.
EntryKeys(entry) ==
    IF entry.type = keyType /\ entry.hasValue THEN <<entry.value>>
    ELSE IF entry.expr.kind = "CallExpr"
         THEN LET translation == processCallExpr(entry.expr)
              IN IF translation # "" THEN <<translation>> ELSE <<>>
         ELSE <<>>

RECURSIVE removeDuplicatesFrom(_, _)
removeDuplicatesFrom(input, seen) ==
    IF input = <<>> THEN <<>>
    ELSE IF Head(input) \in seen THEN removeDuplicatesFrom(Tail(input), seen)
    ELSE <<Head(input)>> \o removeDuplicatesFrom(Tail(input), seen \cup {Head(input)})

\* The variant of removeDuplicates that keeps every occurrence.
removeDuplicatesKeepAll(input) == input

removeDuplicates(input) == removeDuplicatesFrom(input, {})

\* slices.Sort on key texts: insert x into an ascending sequence.
RECURSIVE InsertSorted(_, _)
InsertSorted(x, s) ==
    IF s = <<>> THEN <<x>>
    ELSE IF Less(x, Head(s)) THEN <<x>> \o s
    ELSE <<Head(s)>> \o InsertSorted(x, Tail(s))

RECURSIVE SortKeys(_)
SortKeys(s) == IF s = <<>> THEN <<>> ELSE InsertSorted(Head(s), SortKeys(Tail(s)))

\* ------------------------------------------------------------------------
\* Source trees
\* ------------------------------------------------------------------------
\* A source statement of client code: its shape and the key text(s) in it.
Form(form, key, key2) == [form |-> form, key |-> key, key2 |-> key2]

\* The statements a tree is built from.
Forms ==
    {Form("DirectLit", k, "") : k \in {"attributes", "login", "zipcode"}}
    \cup {Form("TypedConst", k, "") : k \in {"attributes", "zipcode"}}
    \cup {Form("UntypedConstArg", "login", ""), Form("PkgVar", "login", ""),
          Form("LocalVar", "zipcode", ""), Form("LocalAssign", "login", ""),
          Form("ConvVar", "zipcode", ""), Form("WrapLit", "login", ""),
          Form("PlainString", "login", ""),
          Form("MultiAssign", "login", "zipcode"),
          Form("MultiAssign", "zipcode", "login")}
    \cup {Form("MethodLit", k, "") : k \in {"login", "zipcode"}}

\* The entries go/types records in types.Info.Types for a statement, in the
\* order ast.Inspect meets the expressions.
FormEntries(f) ==
    LET k == f.key
        strLit == TypeEntry(Lit(k), "string", TRUE, k)
        keyLit == TypeEntry(Lit(k), keyType, TRUE, k)
        nilArg == TypeEntry(NilIdent, "untyped nil", FALSE, "")
        typeExpr == TypeEntry(TypeExpr, keyType, FALSE, "")
        call(fun, args) == TypeEntry(CallExpr(fun, args), "string", FALSE, "")
        conv(arg) == CallExpr(FnKeyConv, <<arg>>)
    IN CASE f.form = "DirectLit" ->
              \* Translate("k", nil)
              <<call(FnTranslate, <<Lit(k), NilIdent>>), keyLit, nilArg>>
         [] f.form = "TypedConst" ->
              \* const unusedConst messages.Key = "k"
              <<typeExpr, keyLit>>
         [] f.form = "UntypedConstArg" ->
              \* const usedConst = "k"; Translate(usedConst, nil)
              <<TypeEntry(Lit(k), "untyped string", TRUE, k),
                call(FnTranslate, <<ConstIdent(k), NilIdent>>),
                TypeEntry(ConstIdent(k), keyType, TRUE, k), nilArg>>
         [] f.form = "PkgVar" ->
              \* var unusedVar messages.Key = "k"
              <<typeExpr, keyLit>>
         [] f.form = "LocalVar" ->
              \* var translation messages.Key = "k"; Translate(translation, nil)
              LET v == VarIdent("ValueSpec", <<Lit(k)>>)
              IN <<typeExpr, keyLit, call(FnTranslate, <<v, NilIdent>>),
                   TypeEntry(v, keyType, FALSE, ""), nilArg>>
         [] f.form = "LocalAssign" ->
              \* translation := "k"; Translate(messages.Key(translation), nil)
              LET v == VarIdent("AssignStmt", <<Lit(k)>>)
              IN <<strLit, call(FnTranslate, <<conv(v), NilIdent>>),
                   TypeEntry(conv(v), keyType, FALSE, ""),
                   TypeEntry(v, "string", FALSE, ""), nilArg>>
         [] f.form = "ConvVar" ->
              \* var usedVar = "k"; Translate(messages.Key(usedVar), nil)
              LET v == VarIdent("ValueSpec", <<Lit(k)>>)
              IN <<strLit, call(FnTranslate, <<conv(v), NilIdent>>),
                   TypeEntry(conv(v), keyType, FALSE, ""),
                   TypeEntry(v, "string", FALSE, ""), nilArg>>
         [] f.form = "WrapLit" ->
              \* Translate(wrap("k"), nil)
              LET w == CallExpr(FnWrap, <<Lit(k)>>)
              IN <<call(FnTranslate, <<w, NilIdent>>),
                   TypeEntry(w, keyType, FALSE, ""), strLit, nilArg>>
         [] f.form = "PlainString" ->
              \* SameSignature("k", nil)
              <<call(FnSameSignature, <<Lit(k), NilIdent>>), strLit, nilArg>>
         [] f.form = "MultiAssign" ->
              \* a, b := "k", "k2"; Translate(messages.Key(b), nil)
              LET b == VarIdent("AssignStmt", <<Lit(k), Lit(f.key2)>>)
              IN <<strLit, TypeEntry(Lit(f.key2), "string", TRUE, f.key2),
                   call(FnTranslate, <<conv(b), NilIdent>>),
                   TypeEntry(conv(b), keyType, FALSE, ""),
                   TypeEntry(b, "string", FALSE, ""), nilArg>>
         [] f.form = "PairLit" ->
              \* Pair("k", "k2")
              <<call(FnPair, <<Lit(k), Lit(f.key2)>>), keyLit,
                TypeEntry(Lit(f.key2), keyType, TRUE, f.key2)>>
         [] f.form = "PairConv" ->
              \* a := "k"; b := "k2"; Pair(messages.Key(a), messages.Key(b))
              LET a == VarIdent("AssignStmt", <<Lit(k)>>)
                  b == VarIdent("AssignStmt", <<Lit(f.key2)>>)
              IN <<strLit, TypeEntry(Lit(f.key2), "string", TRUE, f.key2),
                   call(FnPair, <<conv(a), conv(b)>>),
                   TypeEntry(conv(a), keyType, FALSE, ""),
                   TypeEntry(a, "string", FALSE, ""),
                   TypeEntry(conv(b), keyType, FALSE, ""),
                   TypeEntry(b, "string", FALSE, "")>>
         [] f.form = "MethodLit" ->
              \* tr.Translate(ctx, "k", nil)
              LET ctx == Expr("Ident", "", "Var", "Field", <<>>, NoFun)
              IN <<call(FnMethodTranslate, <<ctx, Lit(k), NilIdent>>),
                   TypeEntry(ctx, "context", FALSE, ""), keyLit, nilArg>>

\* How a directory loads: cleanly, with the one error "build constraints
\* exclude all Go files", or with another load or type error.
LoadStatus == {"ok", "excluded", "error"}

\* The directories findDirsRecursively returns, in walk order.
DirNames == <<".", "./sub">>

RECURSIVE FormSeqs(_)
FormSeqs(n) ==
    IF n = 0 THEN {<<>>}
    ELSE FormSeqs(n - 1) \cup
         {Append(s, f) : s \in {t \in FormSeqs(n - 1) : Len(t) = n - 1}, f \in Forms}

\* The directories holding at most n statements; one that does not load
\* cleanly contributes no syntax.
DirsUpTo(n) ==
    {[load |-> "ok", forms |-> fs] : fs \in FormSeqs(n)}
    \cup {[load |-> l, forms |-> <<>>] : l \in LoadStatus \ {"ok"}}

\* The ways ndirs directories can hold at most budget statements together:
\* the number of statements of each directory, in walk order.
RECURSIVE Splits(_, _)
Splits(ndirs, budget) ==
    IF ndirs = 0 THEN {<<>>}
    ELSE UNION {{<<k>> \o rest : rest \in Splits(ndirs - 1, budget - k)}
                : k \in 0..budget}

\* The trees whose directories hold the numbers of statements sizes names.
RECURSIVE TreesOf(_)
TreesOf(sizes) ==
    IF sizes = <<>> THEN {<<>>}
    ELSE {<<d>> \o rest :
             d \in {x \in DirsUpTo(Head(sizes)) : Len(x.forms) = Head(sizes)},
             rest \in TreesOf(Tail(sizes))}

RECURSIVE Flatten(_)
Flatten(ss) == IF ss = <<>> THEN <<>> ELSE Head(ss) \o Flatten(Tail(ss))

TreeForms(t) == Flatten([i \in 1..Len(t) |-> t[i].forms])
DirEntries(d) == Flatten([i \in 1..Len(d.forms) |-> FormEntries(d.forms[i])])

\* ------------------------------------------------------------------------
\* extractor.go: TranslationKeysFromSourceCode
\* ------------------------------------------------------------------------
RECURSIVE RemoveFirst(_, _)
RemoveFirst(s, x) ==
    IF s = <<>> THEN <<>>
    ELSE IF Head(s) = x THEN Tail(s) ELSE <<Head(s)>> \o RemoveFirst(Tail(s), x)

\* Every order in which the elements of s can be met.
RECURSIVE Arrangements(_)
Arrangements(s) ==
    IF s = <<>> THEN {<<>>}
    ELSE UNION {{<<x>> \o r : r \in Arrangements(RemoveFirst(s, x))} : x \in Range(s)}

\* The keys the entries of a directory append, entry by entry.
DirKeys(d) ==
    LET es == DirEntries(d)
    IN Flatten([i \in 1..Len(es) |-> EntryKeys(es[i])])

\* extractor.go:33-77. The loop over pkg.TypesInfo.Types ranges over a Go
\* map, so the keys of one directory are met in any order; the directories
\* are visited in walk order.
RECURSIVE Discoveries(_, _)
Discoveries(t, i) ==
    IF i > Len(t) THEN {<<>>}
    ELSE {a \o rest : a \in Arrangements(DirKeys(t[i])), rest \in Discoveries(t, i + 1)}

\* extractor.go:46-63: the load fails on any error other than "build
\* constraints exclude all Go files".
LoadFails(t) == \E i \in 1..Len(t) : t[i].load = "error"

\* The variant of the final check that lets the reserved key through.
ValidateKeysUnchecked(deduplicated) == [keys |-> deduplicated, err |-> "nil"]

\* extractor.go:81-85.
ValidateKeys(deduplicated) ==
    IF attributesKey \in Range(deduplicated)
    THEN [keys |-> <<>>, err |-> "ErrInvalidTranslationKey"]
    ELSE [keys |-> deduplicated, err |-> "nil"]

TranslationKeysFromSourceCode ==
    /\ pc = "start"
    /\ api = "lib"
    /\ IF LoadFails(tree)
       THEN /\ translations' = <<>>
            /\ result' = <<>>
            /\ err' = "package load error"
       ELSE \E ts \in Discoveries(tree, 1) :
               LET v == ValidateKeys(removeDuplicates(ts))
               IN /\ translations' = ts
                  /\ result' = v.keys
                  /\ err' = v.err
    /\ pc' = "done"
    /\ UNCHANGED <<api, tree, defaultLanguage, disk, diskBefore, second, failed>>
    /\ UNCHANGED storeVars

\* ------------------------------------------------------------------------
\* cmd/msgextractor/main.go: collectTranslationsRecursive
\* ------------------------------------------------------------------------
\* main.go:229-268: the key of a call tr.Translate(ctx, "key", replacements).
walkCall(call) ==
    IF /\ call.fun.kind = "Selector"
       /\ call.fun.name = "Translate"
       /\ call.fun.xIdent
       /\ call.fun.hasType
       /\ call.fun.xType = "*github.com/wvell/messages.Translator"
       /\ Len(call.sub) = 3
       /\ call.sub[2].kind = "BasicLit"
    THEN <<call.sub[2].value>>
    ELSE <<>>

\* main.go:226-274 over the files of a package, in source order.
walkNode(d) ==
    LET es == DirEntries(d)
    IN Flatten([i \in 1..Len(es) |->
                  IF es[i].expr.kind = "CallExpr" THEN walkCall(es[i].expr) ELSE <<>>])

\* main.go:196-209: collectTranslations fails on every package error.
CollectFails(t) == \E i \in 1..Len(t) : t[i].load # "ok"

\* main.go:172-178.
FinishCollect(all) == SortKeys(removeDuplicates(all))

collectTranslationsRecursive(t) ==
    IF CollectFails(t)
    THEN [keys |-> <<>>, found |-> <<>>, err |-> "error collection translations"]
    ELSE LET all == Flatten([i \in 1..Len(t) |-> walkNode(t[i])])
         IN [keys |-> FinishCollect(all), found |-> all, err |-> "nil"]

\* A call of collectTranslationsRecursive alone (api = "cli"), or main.go:46-49.
CollectTranslations ==
    /\ pc = "start"
    /\ api \in {"cli", "main"}
    /\ LET r == collectTranslationsRecursive(tree)
       IN /\ translations' = r.found
          /\ result' = r.keys
          /\ err' = r.err
          /\ pc' = IF api = "main" /\ r.err = "nil" THEN "combine" ELSE "done"
    /\ UNCHANGED <<api, tree, defaultLanguage, disk, diskBefore, second, failed>>
    /\ UNCHANGED storeVars

\* ------------------------------------------------------------------------
\* Catalog files
\* ------------------------------------------------------------------------
\* The characters of message texts: an ordinary letter, the backslash, the
\* double quote and the tab (a control character).
LETTER == "t"
BACKSLASH == "BACKSLASH"
QUOTE == "QUOTE"
TAB == "TAB"

\* One "key": "text" member of a catalog file; raw is the text between the
\* quotes as it stands in the file.
Line(key, raw) == [key |-> key, raw |-> raw]

\* A transformer group as it stands under "@transform": each entry with the
\* text of its value between the quotes.
FieldGroup == {[group |-> "field", raw |-> "first_name", value |-> <<LETTER>>],
               [group |-> "field", raw |-> "street", value |-> <<BACKSLASH, QUOTE>>]}

\* The content of a catalog file: zero bytes, or a JSON object of string
\* members followed by the "@transform" member.
Content(size0, lines, transform) ==
    [size0 |-> size0, lines |-> lines, transform |-> transform]
ZeroBytes == Content(TRUE, <<>>, {})

\* encoding/json on the text of a string literal: the value it decodes to, or
\* ok = FALSE when the text is no valid string body (a bare quote ends the
\* string and leaves text the object syntax rejects, a bare control character
\* and an unknown or unfinished escape are syntax errors).
RECURSIVE JSONUnquote(_)
JSONUnquote(raw) ==
    IF raw = <<>> THEN [ok |-> TRUE, val |-> <<>>]
    ELSE IF Head(raw) \in {QUOTE, TAB} THEN [ok |-> FALSE, val |-> <<>>]
    ELSE IF Head(raw) = BACKSLASH
         THEN IF Len(raw) < 2 \/ raw[2] = TAB THEN [ok |-> FALSE, val |-> <<>>]
              ELSE LET rest == JSONUnquote(Tail(Tail(raw)))
                       c == IF raw[2] = LETTER THEN TAB ELSE raw[2]
                   IN [ok |-> rest.ok, val |-> IF rest.ok THEN <<c>> \o rest.val ELSE <<>>]
         ELSE LET rest == JSONUnquote(Tail(raw))
              IN [ok |-> rest.ok, val |-> IF rest.ok THEN <<Head(raw)>> \o rest.val ELSE <<>>]

\* encoding/json on a string value: the text it writes between the quotes.
RECURSIVE JSONQuote(_)
JSONQuote(val) ==
    IF val = <<>> THEN <<>>
    ELSE (IF Head(val) = TAB THEN <<BACKSLASH, LETTER>>
          ELSE IF Head(val) \in {QUOTE, BACKSLASH} THEN <<BACKSLASH, Head(val)>>
          ELSE <<Head(val)>>) \o JSONQuote(Tail(val))

NoMessages == [k \in {} |-> <<>>]

\* RawMessages.UnmarshalJSON of the reader main.go is compiled against:
\* every member but "@transform" must be a string.
UnmarshalJSON(c) ==
    IF \/ \E i \in 1..Len(c.lines) : ~JSONUnquote(c.lines[i].raw).ok
       \/ \E e \in c.transform : ~JSONUnquote(e.value).ok
    THEN [ok |-> FALSE, Messages |-> NoMessages, Transformers |-> {}]
    ELSE [ok |-> TRUE,
          Messages |-> [k \in {c.lines[i].key : i \in 1..Len(c.lines)} |->
                          LET last == CHOOSE i \in 1..Len(c.lines) :
                                         /\ c.lines[i].key = k
                                         /\ \A j \in (i + 1)..Len(c.lines) : c.lines[j].key # k
                          IN JSONUnquote(c.lines[last].raw).val],
          Transformers |-> {[group |-> e.group, raw |-> e.raw,
                             value |-> JSONUnquote(e.value).val] : e \in c.transform}]

\* The variant without the size test: decoding zero bytes is an error (EOF).
RawTranslationsFromFileNoSizeTest(c) ==
    IF c.size0 THEN [ok |-> FALSE, Messages |-> NoMessages, Transformers |-> {}]
    ELSE UnmarshalJSON(c)

\* RawTranslationsFromFile: an empty file is an empty catalog.
RawTranslationsFromFile(c) ==
    IF c.size0 THEN [ok |-> TRUE, Messages |-> NoMessages, Transformers |-> {}]
    ELSE UnmarshalJSON(c)

\* The catalog file names of the model in os.ReadDir order, and the
\* LanguageID.String() ParseLanguage gives each.
FileNames == <<"en.json", "nl.json">>
FileLang == [f \in Range(FileNames) |-> IF f = "en.json" THEN "en" ELSE "nl"]
FileRank(f) == CHOOSE i \in 1..Len(FileNames) : FileNames[i] = f

\* TranslationFilesFromDir: language id -> file; of two files with one id
\* the later directory entry stays.
TranslationFilesFromDir(d) ==
    [id \in {FileLang[f] : f \in DOMAIN d} |->
        CHOOSE f \in DOMAIN d :
            /\ FileLang[f] = id
            /\ \A g \in DOMAIN d : FileLang[g] = id => FileRank(g) <= FileRank(f)]

\* ------------------------------------------------------------------------
\* cmd/msgextractor/main.go: combineTranslations
\* ------------------------------------------------------------------------
\* main.go:114-121: the value written for an active key.
ChooseValue(messages, active, hasDefault, defaultMessages) ==
    IF active \in DOMAIN messages THEN messages[active]
    ELSE IF hasDefault
         THEN IF active \in DOMAIN defaultMessages THEN defaultMessages[active] ELSE <<>>
         ELSE <<>>

\* The variant of the loop that also writes the file's keys that are not
\* active, after the active ones.
NewLinesKeepUnused(messages, activeTranslations, hasDefault, defaultMessages) ==
    [i \in 1..Len(activeTranslations) |->
        Line(activeTranslations[i],
             ChooseValue(messages, activeTranslations[i], hasDefault, defaultMessages))]
    \o LET unused == SelectSeq(KeyOrder, LAMBDA k :
                          k \in DOMAIN messages /\ k \notin Range(activeTranslations))
       IN [i \in 1..Len(unused) |-> Line(unused[i], messages[unused[i]])]

\* main.go:113-129: one line per active key, the value printed with %s.
NewLines(messages, activeTranslations, hasDefault, defaultMessages) ==
    [i \in 1..Len(activeTranslations) |->
        Line(activeTranslations[i],
             ChooseValue(messages, activeTranslations[i], hasDefault, defaultMessages))]

\* The variant that also takes the groups of the default catalog the file
\* has no group of the same name for.
NewTransformersWithDefault(own, hasDefault, defaultTransformers) ==
    own \cup {e \in defaultTransformers :
                hasDefault /\ e.group \notin {o.group : o \in own}}

\* main.go:131-132: the transformers written are the ones the file itself
\* was read with.
NewTransformers(own, hasDefault, defaultTransformers) == own

\* The variant of the encoding that writes no group.
MarshalTransformersEmpty(transformers) == {}

\* main.go:132: json.MarshalIndent of the Transformers the file was read with.
MarshalTransformers(transformers) ==
    {[group |-> e.group, raw |-> e.raw, value |-> JSONQuote(e.value)] : e \in transformers}

\* The variant of the lookup that goes on without a default catalog when the
\* default language has no file.
DefaultMissingIgnored(defaultLang, known) == FALSE

\* main.go:97-101: a default language is given and translations has no
\* entry for it.
DefaultMissing(defaultLang, known) ==
    defaultLang # "" /\ defaultLang \notin known

\* The variant of the read loop that goes on after a file that does not
\* decode, with an empty catalog for it.
ReadFailsIgnored(reads) == FALSE

\* main.go:84-88: reading or decoding one of the listed files fails.
ReadFails(reads) == \E id \in DOMAIN reads : ~reads[id].ok

\* main.go:68-155. files: the listing; reads: the catalogs read; the write
\* loop replaces every listed file whose write does not fail.
combineTranslations(d, activeTranslations, defaultLang, failing) ==
    LET files == TranslationFilesFromDir(d)
        reads == [id \in DOMAIN files |-> RawTranslationsFromFile(d[files[id]])]
        hasDefault == defaultLang # ""
        defaultMessages == IF hasDefault /\ defaultLang \in DOMAIN reads
                           THEN reads[defaultLang].Messages ELSE NoMessages
        defaultTransformers == IF hasDefault /\ defaultLang \in DOMAIN reads
                               THEN reads[defaultLang].Transformers ELSE {}
        written == {files[id] : id \in DOMAIN files}
        new(f) == Content(FALSE,
                          NewLines(reads[FileLang[f]].Messages, activeTranslations,
                                   hasDefault, defaultMessages),
                          MarshalTransformers(
                              NewTransformers(reads[FileLang[f]].Transformers,
                                              hasDefault, defaultTransformers)))
    IN IF DOMAIN files = {}
       THEN [err |-> "there are no translation files", disk |-> d, failed |-> {}]
       ELSE IF ReadFails(reads)
       THEN [err |-> "reading file", disk |-> d, failed |-> {}]
       ELSE IF DefaultMissing(defaultLang, DOMAIN reads)
       THEN [err |-> "default language not found", disk |-> d, failed |-> {}]
       ELSE [err |-> "nil",
             disk |-> [f \in DOMAIN d |->
                          IF f \in written /\ f \notin failing THEN new(f) ELSE d[f]],
             failed |-> failing \cap written]

\* main.go:51-54. The result of os.WriteFile is dropped (main.go:151), so a
\* write that fails leaves the file as it was and the run goes on.
CombineTranslations ==
    /\ pc = "combine"
    /\ \E failing \in SUBSET DOMAIN disk :
          LET r == combineTranslations(disk, result, defaultLanguage, failing)
          IN /\ disk' = r.disk
             /\ err' = r.err
             /\ failed' = failed \cup r.failed
    /\ pc' = "done"
    /\ UNCHANGED <<api, tree, translations, result, defaultLanguage, diskBefore, second>>
    /\ UNCHANGED storeVars

\* msgextractor is run once more on the same source tree and directory.
RunAgain ==
    /\ pc = "done"
    /\ api = "main"
    /\ err = "nil"
    /\ ~second
    /\ second' = TRUE
    /\ diskBefore' = disk
    /\ pc' = "start"
    /\ translations' = <<>>
    /\ result' = <<>>
    /\ UNCHANGED <<api, tree, err, defaultLanguage, disk, failed>>
    /\ UNCHANGED storeVars

\* ------------------------------------------------------------------------
\* Specification of the two extractors
\* ------------------------------------------------------------------------
NoDisk == [f \in {} |-> TRUE]

InitExtract ==
    /\ api \in {"lib", "cli"}
    /\ \E n \in 1..Len(DirNames) : \E sizes \in Splits(n, MaxForms) :
          tree \in TreesOf(sizes)
    /\ pc = "start"
    /\ translations = <<>>
    /\ result = <<>>
    /\ err = "nil"
    /\ defaultLanguage = ""
    /\ disk = NoDisk
    /\ diskBefore = NoDisk
    /\ second = FALSE
    /\ failed = {}
    /\ StoreIdle

NextExtract == TranslationKeysFromSourceCode \/ CollectTranslations

SpecExtract == InitExtract /\ [][NextExtract]_vars

\* ------------------------------------------------------------------------
\* Claims about extraction
\* ------------------------------------------------------------------------
Succeeded(a) == pc = "done" /\ api = a /\ err = "nil"

\* The key a statement of one of the shapes extraction supports refers to.
SupportedForms ==
    {"DirectLit", "TypedConst", "UntypedConstArg", "PkgVar", "LocalVar",
     "LocalAssign", "ConvVar", "WrapLit", "MethodLit"}
SupportedKeys(t) ==
    {f.key : f \in {g \in Range(TreeForms(t)) : g.form \in SupportedForms}}

\* C1: for every source tree on which extraction succeeds, the key list
\* TranslationKeysFromSourceCode returns is in ascending lexical order.
C1_LibResultSorted == Succeeded("lib") => IsSorted(result)

\* C2: the key list returned by TranslationKeysFromSourceCode and by
\* collectTranslationsRecursive holds every key at most once, and holds
\* every key that was discovered.
C2_NoDuplicates ==
    (pc = "done" /\ err = "nil") =>
        NoDuplicates(result) /\ Range(result) = Range(translations)
C2_Witness ==
    /\ pc = "done" /\ err = "nil"
    /\ Len(translations) > Len(result)
    /\ Len(result) > 0
    /\ \E i \in 1..Len(tree) : \E j \in 1..Len(tree) : \E k \in Range(result) :
          i # j /\ k \in Range(DirKeys(tree[i])) /\ k \in Range(DirKeys(tree[j]))

\* C3: when the reserved key is among the keys discovered,
\* TranslationKeysFromSourceCode returns an error and no key list, and the
\* error is ErrInvalidTranslationKey unless loading a directory failed.
C3_ReservedKeyFails ==
    (pc = "done" /\ api = "lib"
        /\ \E i \in 1..Len(tree) : attributesKey \in Range(DirKeys(tree[i]))) =>
        /\ result = <<>>
        /\ err # "nil"
        /\ ~LoadFails(tree) => err = "ErrInvalidTranslationKey"
C3_Witness ==
    /\ pc = "done" /\ api = "lib"
    /\ err = "ErrInvalidTranslationKey"
    /\ result = <<>>
    /\ attributesKey \in Range(translations)
    /\ \E k \in Range(translations) : k # attributesKey

\* C4: extraction finds the key of every statement of a supported shape.
C4_SupportedFormsFound == Succeeded("lib") => SupportedKeys(tree) \subseteq Range(result)
C4_Witness ==
    /\ Succeeded("lib")
    /\ \E f \in Range(TreeForms(tree)) : f.form \in {"ConvVar", "WrapLit", "LocalAssign"}
    /\ \E f \in Range(TreeForms(tree)) : f.form \in {"TypedConst", "PkgVar"}
    /\ Len(result) = 2

\* C5: no key is extracted through an identifier declared by a multi-target
\* assignment: every key returned is the key of a supported statement.
C5_NoKeyThroughMultiAssign == Succeeded("lib") => Range(result) \subseteq SupportedKeys(tree)

\* ------------------------------------------------------------------------
\* Specification of msgextractor (main)
\* ------------------------------------------------------------------------
\* The catalog directories of the model and the keys a file may hold before
\* the first run.
CatalogDirs == {{"en.json"}, {"nl.json"}, {"en.json", "nl.json"}}
FileKeys == [f \in Range(FileNames) |->
                IF f = "en.json" THEN {"welcome", "zipcode"} ELSE {"login", "welcome"}]

\* The texts a message may have in a file before the first run: empty, a
\* letter, an escaped quote, an escaped backslash followed by a letter.
RawSamples == {<<>>, <<LETTER>>, <<BACKSLASH, QUOTE>>, <<BACKSLASH, BACKSLASH, LETTER>>}

MessageSlots(present) == {[file |-> f, key |-> k] : f \in present, k \in Keys} \cap
                         UNION {{[file |-> f, key |-> k] : k \in FileKeys[f]} : f \in present}
TransformSlots(present) == {[file |-> f, key |-> "@transform"] : f \in present}

\* The file f of a directory with the entries E, raws giving the messages' texts.
InitialFile(f, E, raws) ==
    LET keys == SelectSeq(KeyOrder, LAMBDA k : [file |-> f, key |-> k] \in E)
        lines == [i \in 1..Len(keys) |-> Line(keys[i], raws[[file |-> f, key |-> keys[i]]])]
        transform == IF [file |-> f, key |-> "@transform"] \in E THEN FieldGroup ELSE {}
    IN IF lines = <<>> /\ transform = {} THEN ZeroBytes
       ELSE Content(FALSE, lines, transform)

\* The source trees of the runs of main: calls tr.Translate(ctx, "key", nil)
\* in one directory, or a directory that does not load.
SyncForms == {Form("MethodLit", k, "") : k \in {"welcome", "zipcode"}}
SyncTrees ==
    {<<[load |-> "ok", forms |-> fs]>> :
        fs \in {<<>>} \cup {<<f>> : f \in SyncForms}
               \cup {<<f, g>> : f \in SyncForms, g \in SyncForms}}
    \cup {<<[load |-> "error", forms |-> <<>>]>>}

InitSync ==
    /\ api = "main"
    /\ tree \in SyncTrees
    /\ pc = "start"
    /\ translations = <<>>
    /\ result = <<>>
    /\ err = "nil"
    /\ defaultLanguage \in {"", "en"}
    /\ \E present \in CatalogDirs :
          \E E \in SUBSET (MessageSlots(present) \cup TransformSlots(present)) :
             /\ Cardinality(E) <= MaxEntries
             /\ \E raws \in [E \cap MessageSlots(present) -> RawSamples] :
                   disk = [f \in present |-> InitialFile(f, E, raws)]
    /\ diskBefore = disk
    /\ second = FALSE
    /\ failed = {}
    /\ StoreIdle

NextSync == CollectTranslations \/ CombineTranslations \/ RunAgain

SpecSync == InitSync /\ [][NextSync]_vars

\* ------------------------------------------------------------------------
\* Claims about synchronization
\* ------------------------------------------------------------------------
ReadBefore(f) == RawTranslationsFromFile(diskBefore[f])
ReadAfter(f) == RawTranslationsFromFile(disk[f])
LineKeys(c) == [i \in 1..Len(c.lines) |-> c.lines[i].key]

\* A run of main that returned no error and in which every write succeeded.
RunSucceeded == api = "main" /\ pc = "done" /\ err = "nil" /\ failed = {}
FirstRunSucceeded == RunSucceeded /\ ~second

\* The catalog of the default language as it was read at the start of the run.
DefaultBefore == ReadBefore(TranslationFilesFromDir(diskBefore)[defaultLanguage])

\* C6: after one successful run, a second run on the same source tree,
\* directory and default language leaves every catalog file as the first
\* run wrote it.
C6_Idempotent == (RunSucceeded /\ second) => disk = diskBefore

C8_KeySetIsActive ==
    FirstRunSucceeded =>
        \A f \in DOMAIN disk :
            ReadAfter(f).ok /\ DOMAIN ReadAfter(f).Messages = Range(result)

\* C9: an active key a locale file already holds keeps its value.
C9_ExistingValueKept ==
    FirstRunSucceeded =>
        \A f \in DOMAIN disk : \A k \in Range(result) \cap DOMAIN ReadBefore(f).Messages :
            /\ ReadAfter(f).ok
            /\ k \in DOMAIN ReadAfter(f).Messages
            /\ ReadAfter(f).Messages[k] = ReadBefore(f).Messages[k]

\* C10: an active key a locale file lacks is inserted with the default
\* catalog's value when a default language is given and has the key, and
\* with the empty string otherwise.
C10_MissingKeyInserted ==
    FirstRunSucceeded =>
        \A f \in DOMAIN disk : \A k \in Range(result) \ DOMAIN ReadBefore(f).Messages :
            /\ ReadAfter(f).ok
            /\ k \in DOMAIN ReadAfter(f).Messages
            /\ ReadAfter(f).Messages[k] =
                  IF defaultLanguage # "" /\ k \in DOMAIN DefaultBefore.Messages
                  THEN DefaultBefore.Messages[k] ELSE <<>>

\* C11: when a default language is given and the catalog directory has no
\* file for it, the run returns an error and every catalog file is as it was;
\* when the source tree and every catalog file could be read, the error is
\* the one about the default language.
C11_MissingDefaultFails ==
    (api = "main" /\ pc = "done" /\ ~second
        /\ defaultLanguage # ""
        /\ defaultLanguage \notin DOMAIN TranslationFilesFromDir(diskBefore)) =>
        /\ err # "nil"
        /\ disk = diskBefore
        /\ (~CollectFails(tree) /\ \A f \in DOMAIN diskBefore : ReadBefore(f).ok)
              => err = "default language not found"
C11_Witness ==
    /\ api = "main" /\ pc = "done"
    /\ err = "default language not found"
    /\ result # <<>>
    /\ \E f \in DOMAIN disk : disk[f].lines # <<>> /\ LineKeys(disk[f]) # result
    /\ disk = diskBefore

\* The transformer entries a file holds, decoded.
TransformersIn(c) ==
    {[group |-> e.group, raw |-> e.raw, value |-> JSONUnquote(e.value).val] : e \in c.transform}
GroupsOf(transformers) == {e.group : e \in transformers}

MaxDirEntries == 2

\* The characters of file names, in byte order.
CharOrder == <<"-", ".", "1", "E", "N", "S", "U", "_", "c", "e", "g", "j",
               "l", "n", "o", "q", "s", "t", "u", "x">>
CharRank(c) == CHOOSE i \in 1..Len(CharOrder) : CharOrder[i] = c
\* [a-zA-Z] among the characters of the model.
IsLetter(c) == c \in {"E", "N", "S", "U", "c", "e", "g", "j", "l", "n", "o",
                      "q", "s", "t", "u", "x"}
ToLower(c) == CASE c = "E" -> "e" [] c = "N" -> "n" [] c = "S" -> "s"
                [] c = "U" -> "u" [] OTHER -> c
ToUpper(c) == CASE c = "e" -> "E" [] c = "n" -> "N" [] c = "s" -> "S"
                [] c = "u" -> "U" [] c = "l" -> "L" [] OTHER -> c

\* Byte-wise order of two names, as os.ReadDir sorts the entries.
RECURSIVE NameLess(_, _)
NameLess(a, b) ==
    IF b = <<>> THEN FALSE
    ELSE IF a = <<>> THEN TRUE
    ELSE IF Head(a) # Head(b) THEN CharRank(Head(a)) < CharRank(Head(b))
    ELSE NameLess(Tail(a), Tail(b))

DotJson == <<".", "j", "s", "o", "n">>

\* The names a catalog directory of the model may hold.
SampleNames ==
    {<<"e", "n">> \o DotJson, <<"E", "N">> \o DotJson, <<"n", "l">> \o DotJson,
     <<"q", "q">> \o DotJson,
     <<"e", "n", "_", "U", "S">> \o DotJson, <<"e", "n", "-", "u", "s">> \o DotJson,
     <<"e", "n", "g">> \o DotJson, <<"e">> \o DotJson,
     <<"e", "n", "_", "U">> \o DotJson, <<"e", "n", ".", "U", "S">> \o DotJson,
     <<"e", "1">> \o DotJson,
     <<"e", "n">> \o DotJson \o <<"c">>, <<"x", "e", "n">> \o DotJson,
     <<"e", "n", ".", "t", "x", "t">>, <<"e", "n">>}

SubSeqFrom(s, i) == SubSeq(s, i, Len(s))

\* The variant of the pattern without the closing anchor: the name only has
\* to start with the pattern.
isFileUnanchored(name) ==
    IF Len(name) >= 7 /\ IsLetter(name[1]) /\ IsLetter(name[2])
       /\ SubSeq(name, 3, 7) = DotJson
    THEN SubSeq(name, 1, 2)
    ELSE IF Len(name) >= 10 /\ IsLetter(name[1]) /\ IsLetter(name[2])
            /\ name[3] \in {"-", "_"} /\ IsLetter(name[4]) /\ IsLetter(name[5])
            /\ SubSeq(name, 6, 10) = DotJson
    THEN SubSeq(name, 1, 5)
    ELSE <<>>

\* isFile.FindStringSubmatch(name)[1] for
\* ^([a-zA-Z]{2}(?:[-_][a-zA-Z]{2})?)\.json$, or <<>> when there is no match.
isFile(name) ==
    IF Len(name) >= 2 /\ IsLetter(name[1]) /\ IsLetter(name[2])
    THEN IF SubSeqFrom(name, 3) = DotJson THEN SubSeq(name, 1, 2)
         ELSE IF Len(name) >= 5 /\ name[3] \in {"-", "_"}
                 /\ IsLetter(name[4]) /\ IsLetter(name[5])
                 /\ SubSeqFrom(name, 6) = DotJson
         THEN SubSeq(name, 1, 5)
         ELSE <<>>
    ELSE <<>>

\* The base languages and regions golang.org/x/text/language knows, among
\* the ones the names of the model spell.
KnownLanguages == {<<"e", "n">>, <<"n", "l">>}
KnownRegions == {<<"U", "S">>}

\* ParseLanguage(lang).String() for a text isFile matched: the base language
\* in lower case, then "-" and the region in upper case when one is spelled.
ParseLanguage(lang) ==
    LET base == [i \in 1..2 |-> ToLower(lang[i])]
        region == IF Len(lang) = 5 THEN [i \in 1..2 |-> ToUpper(lang[i + 3])] ELSE <<>>
    IN IF base \notin KnownLanguages \/ (region # <<>> /\ region \notin KnownRegions)
       THEN [ok |-> FALSE, id |-> <<>>]
       ELSE [ok |-> TRUE, id |-> IF region = <<>> THEN base ELSE base \o <<"-">> \o region]

NoFiles == [id \in {} |-> <<>>]

\* The loop of TranslationFilesFromDir from entry i on.
RECURSIVE ListFrom(_, _, _)
ListFrom(es, i, found) ==
    IF i > Len(es) THEN [err |-> "nil", files |-> found]
    ELSE IF es[i].isDir THEN ListFrom(es, i + 1, found)
    ELSE LET match == isFile(es[i].name)
         IN IF match = <<>>
            THEN [err |-> "filename should have format en.json or en_US.json",
                  files |-> NoFiles]
            ELSE LET langID == ParseLanguage(match)
                 IN IF ~langID.ok
                    THEN [err |-> "parsing language id", files |-> NoFiles]
                    ELSE ListFrom(es, i + 1,
                                  [id \in DOMAIN found \cup {langID.id} |->
                                      IF id = langID.id THEN es[i].name ELSE found[id]])

\* Parser.TranslationFilesFromDir on a directory with the entries es.
ParserTranslationFilesFromDir(es) == ListFrom(es, 1, NoFiles)

ListTranslationFiles ==
    /\ pc = "start"
    /\ api = "list"
    /\ LET r == ParserTranslationFilesFromDir(entries)
       IN listed' = r.files /\ err' = r.err
    /\ pc' = "done"
    /\ UNCHANGED <<api, tree, translations, result, defaultLanguage, disk,
                   diskBefore, second, failed, entries, data, rawMessages, marshalled,
                   translateVars>>

\* The directories of the model: at most MaxDirEntries entries, files or
\* directories, with different names, in the order os.ReadDir returns them.
RECURSIVE Listings(_)
Listings(n) ==
    IF n = 0 THEN {<<>>}
    ELSE Listings(n - 1) \cup
         {Append(s, [name |-> nm, isDir |-> d]) :
             s \in {t \in Listings(n - 1) : Len(t) = n - 1},
             nm \in SampleNames, d \in BOOLEAN}

SortedListing(es) == \A i \in 1..(Len(es) - 1) : NameLess(es[i].name, es[i + 1].name)

InitList ==
    /\ api = "list"
    /\ pc = "start"
    /\ entries \in {es \in Listings(MaxDirEntries) : SortedListing(es)}
    /\ listed = NoFiles
    /\ tree = <<>> /\ translations = <<>> /\ result = <<>> /\ err = "nil"
    /\ defaultLanguage = "" /\ disk = NoDisk /\ diskBefore = NoDisk
    /\ second = FALSE /\ failed = {}
    /\ data = <<>> /\ rawMessages = <<>> /\ marshalled = <<>>
    /\ TranslateIdle

NextList == ListTranslationFiles

SpecList == InitList /\ [][NextList]_vars

\* The names the pattern ^[a-zA-Z]{2}([-_][a-zA-Z]{2})?\.json$ describes.
MatchesPattern(name) ==
    \E n \in {2, 5} :
        /\ Len(name) = n + Len(DotJson)
        /\ IsLetter(name[1]) /\ IsLetter(name[2])
        /\ n = 5 => (name[3] \in {"-", "_"} /\ IsLetter(name[4]) /\ IsLetter(name[5]))
        /\ \A k \in 1..Len(DotJson) : name[n + k] = DotJson[k]

\* C14: listing fails whenever the directory holds a file whose name does not
\* match the pattern, and on success every file of the directory is returned
\* under some language and every returned name is a file matching the pattern.
C14_ListingRejectsBadNames ==
    (api = "list" /\ pc = "done") =>
        /\ (\E i \in 1..Len(entries) :
               ~entries[i].isDir /\ ~MatchesPattern(entries[i].name))
             => (err # "nil" /\ listed = NoFiles)
        /\ err = "nil" =>
             \A id \in DOMAIN listed :
                /\ MatchesPattern(listed[id])
                /\ \E i \in 1..Len(entries) :
                      ~entries[i].isDir /\ entries[i].name = listed[id]
C14_Witness ==
    /\ api = "list" /\ pc = "done"
    /\ err = "filename should have format en.json or en_US.json"
    /\ Len(entries) = 2
    /\ MatchesPattern(entries[1].name) /\ ~entries[1].isDir
    /\ ParseLanguage(isFile(entries[1].name)).ok
    /\ entries[2].name = <<"e", "n">> \o DotJson \o <<"c">>

\* C15: a zero-byte catalog file reads, without error, as a catalog with no
\* message and no transformer, and a run that writes it leaves it with
\* exactly the active keys (each with the empty text when no default
\* language is given).
C15_EmptyFileIsEmptyCatalog ==
    (api = "main" /\ pc = "done" /\ ~second) =>
        \A f \in DOMAIN diskBefore :
            diskBefore[f] = ZeroBytes =>
                /\ ReadBefore(f).ok
                /\ ReadBefore(f).Messages = NoMessages
                /\ ReadBefore(f).Transformers = {}
                /\ (err = "nil" /\ f \notin failed) =>
                      /\ LineKeys(disk[f]) = result
                      /\ disk[f].transform = {}
                      /\ defaultLanguage = "" =>
                            /\ ReadAfter(f).ok
                            /\ ReadAfter(f).Messages = [k \in Range(result) |-> <<>>]
C15_Witness ==
    /\ FirstRunSucceeded
    /\ defaultLanguage = ""
    /\ Len(result) = 2
    /\ \E f \in DOMAIN disk :
          /\ diskBefore[f] = ZeroBytes
          /\ ReadAfter(f).Messages = [k \in Range(result) |-> <<>>]

\* ------------------------------------------------------------------------
\* The catalog store: readfile.go, RawMessages
\* ------------------------------------------------------------------------
\* Largest number of members of a hand-written catalog file, and of entries
\* (messages and attributes) of a catalog that is serialized.
MaxMembers == 2

\* JSON values as they stand in a file. text: the text of a string between
\* its quotes; members: the members of an object, in file order.
StringValue(text) == [kind |-> "string", text |-> text, members |-> <<>>]
OtherValue(kind) == [kind |-> kind, text |-> <<>>, members |-> <<>>]
ObjectValue(members) == [kind |-> "object", text |-> <<>>, members |-> members]
Member(key, value) == [key |-> key, value |-> value]

\* A catalog file: the members of its top-level object and the indentation
\* it is printed with.
Document(indent, members) == [indent |-> indent, members |-> members]

\* The value of the last member of ms with the key k (encoding/json keeps
\* the last of repeated keys).
LastValue(ms, k) ==
    ms[CHOOSE i \in 1..Len(ms) :
          ms[i].key = k /\ \A j \in (i + 1)..Len(ms) : ms[j].key # k].value
MemberKeys(ms) == {ms[i].key : i \in 1..Len(ms)}

\* Whether the text of every string of a value is a valid string body.
RECURSIVE ValidSyntax(_)
ValidSyntax(v) ==
    IF v.kind = "string" THEN JSONUnquote(v.text).ok
    ELSE \A i \in 1..Len(v.members) : ValidSyntax(v.members[i].value)

\* json.Unmarshal of a value into a Go string: a string decodes, null leaves
\* the string empty without an error, anything else is an error.
UnmarshalString(v) ==
    IF v.kind = "string" THEN [ok |-> TRUE, val |-> JSONUnquote(v.text).val]
    ELSE IF v.kind = "null" THEN [ok |-> TRUE, val |-> <<>>]
    ELSE [ok |-> FALSE, val |-> <<>>]

\* The variant of the decoding that forgets the attributes it decoded.
UnmarshalAttributesDropped(v) ==
    IF v.kind = "null" THEN [ok |-> TRUE, val |-> NoMessages]
    ELSE IF v.kind # "object" THEN [ok |-> FALSE, val |-> NoMessages]
    ELSE IF \E i \in 1..Len(v.members) : ~UnmarshalString(v.members[i].value).ok
    THEN [ok |-> FALSE, val |-> NoMessages]
    ELSE [ok |-> TRUE, val |-> NoMessages]

\* readfile.go:112-118: json.Unmarshal of the attributes value into a
\* map[string]string.
UnmarshalAttributes(v) ==
    IF v.kind = "null" THEN [ok |-> TRUE, val |-> NoMessages]
    ELSE IF v.kind # "object" THEN [ok |-> FALSE, val |-> NoMessages]
    ELSE IF \E i \in 1..Len(v.members) : ~UnmarshalString(v.members[i].value).ok
    THEN [ok |-> FALSE, val |-> NoMessages]
    ELSE [ok |-> TRUE,
          val |-> [k \in MemberKeys(v.members) |->
                      UnmarshalString(LastValue(v.members, k)).val]]

\* What RawTranslationsFromFile returns: the catalog, or an error and the key
\* the error names ("" when it names none).
Catalog(messages, attributes) ==
    [err |-> "nil", key |-> "", Messages |-> messages, Attributes |-> attributes]
ReadError(e, key) ==
    [err |-> e, key |-> key, Messages |-> NoMessages, Attributes |-> NoMessages]

\* readfile.go:101-129, RawMessages.UnmarshalJSON: the outcomes of decoding
\* the document d. The loop ranges over a Go map, so with several offending
\* members any of them may be the one reported.
RawMessagesUnmarshalJSON(d) ==
    LET ms == d.members
        keys == MemberKeys(ms)
        badMessages == {k \in keys \ {attributesKey} : ~UnmarshalString(LastValue(ms, k)).ok}
        badAttributes == attributesKey \in keys
                         /\ ~UnmarshalAttributes(LastValue(ms, attributesKey)).ok
    IN IF \E i \in 1..Len(ms) : ~ValidSyntax(ms[i].value)
       THEN {ReadError("syntax error", "")}
       ELSE IF badMessages = {} /\ ~badAttributes
       THEN {Catalog([k \in keys \ {attributesKey} |-> UnmarshalString(LastValue(ms, k)).val],
                     IF attributesKey \in keys
                     THEN UnmarshalAttributes(LastValue(ms, attributesKey)).val
                     ELSE NoMessages)}
       ELSE {ReadError("invalid format for message value", k) : k \in badMessages}
            \cup (IF badAttributes THEN {ReadError("invalid format for @transform", "")}
                  ELSE {})

ReadFile ==
    /\ api = "read"
    /\ pc = "start"
    /\ rawMessages' \in RawMessagesUnmarshalJSON(data)
    /\ err' = rawMessages'.err
    /\ pc' = "done"
    /\ UNCHANGED <<api, tree, translations, result, defaultLanguage, disk,
                   diskBefore, second, failed, entries, listed, data, marshalled,
                   translateVars>>

\* The keys of a Go map in ascending order, and the orders in which ranging
\* over the map (maps.Keys) may give them.
KeySeq(keys) == SelectSeq(KeyOrder, LAMBDA k : k \in keys)
KeyOrders(keys) == Arrangements(KeySeq(keys))

\* The variant of marshalMapToJSON without slices.Sort: the members in the
\* order maps.Keys gave the keys.
marshalMapToJSONUnsorted(src, order) ==
    [i \in 1..Len(order) |-> Member(order[i], src[order[i]])]

\* readfile.go:164-193, marshalMapToJSON: order is what maps.Keys returned.
marshalMapToJSON(src, order) ==
    LET keys == SortKeys(order)
    IN [i \in 1..Len(keys) |-> Member(keys[i], src[keys[i]])]

\* json.Marshal of a map[string]string: encoding/json writes the keys sorted.
MarshalStringMap(m) ==
    LET keys == KeySeq(DOMAIN m)
    IN ObjectValue([i \in 1..Len(keys) |->
                      Member(keys[i], StringValue(JSONQuote(m[keys[i]])))])

\* readfile.go:131-161, RawMessages.MarshalJSON: the attributes take the
\* place of a message called "attributes"; the result is indented by two
\* spaces.
MarshalJSON(r, order) ==
    LET rawValues == [k \in DOMAIN r.Messages \cup {attributesKey} |->
                         IF k = attributesKey THEN MarshalStringMap(r.Attributes)
                         ELSE StringValue(JSONQuote(r.Messages[k]))]
    IN Document("  ", marshalMapToJSON(rawValues, order))

\* A catalog is serialized: first, then once more, or once more after the
\* file written first was read back.
WriteCatalog ==
    /\ api = "write"
    /\ pc \in {"start", "written", "reread"}
    /\ \E order \in KeyOrders(DOMAIN rawMessages.Messages \cup {attributesKey}) :
          marshalled' = Append(marshalled, MarshalJSON(rawMessages, order))
    /\ pc' = CASE pc = "start" -> "written"
               [] pc = "written" -> "twice"
               [] pc = "reread" -> "rewritten"
    /\ UNCHANGED <<api, tree, translations, result, err, defaultLanguage, disk,
                   diskBefore, second, failed, entries, listed, data, rawMessages,
                   translateVars>>

\* The file written first is read.
ReadBack ==
    /\ api = "write"
    /\ pc = "written"
    /\ data' = marshalled[1]
    /\ rawMessages' \in RawMessagesUnmarshalJSON(data')
    /\ err' = rawMessages'.err
    /\ pc' = IF err' = "nil" THEN "reread" ELSE "done"
    /\ UNCHANGED <<api, tree, translations, result, defaultLanguage, disk,
                   diskBefore, second, failed, entries, listed, marshalled,
                   translateVars>>

\* The values of hand-written catalog files.
StringTexts == {<<>>, <<LETTER>>, <<BACKSLASH, QUOTE>>}
FirstName == Member("first_name", StringValue(<<LETTER>>))
SampleValues ==
    {StringValue(t) : t \in StringTexts}
    \cup {OtherValue(k) : k \in {"number", "boolean", "null", "array"}}
    \cup {ObjectValue(<<>>), ObjectValue(<<FirstName>>),
          ObjectValue(<<Member("field", ObjectValue(<<FirstName>>))>>),
          ObjectValue(<<Member("first_name", OtherValue("number"))>>),
          ObjectValue(<<Member("first_name", OtherValue("null"))>>)}
SampleMembers == {Member(k, v) : k \in {attributesKey, "login", "zipcode"}, v \in SampleValues}

RECURSIVE MemberSeqs(_)
MemberSeqs(n) ==
    IF n = 0 THEN {<<>>}
    ELSE MemberSeqs(n - 1) \cup
         {Append(ms, m) : ms \in {t \in MemberSeqs(n - 1) : Len(t) = n - 1},
                          m \in SampleMembers}

\* The catalogs that are serialized: messages and attributes with decoded
\* texts, at most MaxMembers entries together.
DecodedTexts == {<<>>, <<LETTER>>, <<QUOTE>>, <<BACKSLASH, LETTER>>, <<TAB>>}
AttributeTexts == {<<LETTER>>, <<QUOTE>>}
Maps(keys, texts) == UNION {[ks -> texts] : ks \in SUBSET keys}
Catalogs ==
    {Catalog(m, a) : m \in Maps({attributesKey, "login", "zipcode"}, DecodedTexts),
                     a \in Maps({"first_name", "street"}, AttributeTexts)}

InitStore ==
    /\ api \in {"read", "write"}
    /\ pc = "start"
    /\ IF api = "read"
       THEN /\ data \in {Document("\t", ms) : ms \in MemberSeqs(MaxMembers)}
            /\ rawMessages = <<>>
       ELSE /\ data = <<>>
            /\ rawMessages \in {c \in Catalogs :
                   Cardinality(DOMAIN c.Messages) + Cardinality(DOMAIN c.Attributes)
                       <= MaxMembers}
    /\ marshalled = <<>>
    /\ entries = <<>> /\ listed = <<>>
    /\ tree = <<>> /\ translations = <<>> /\ result = <<>> /\ err = "nil"
    /\ defaultLanguage = "" /\ disk = NoDisk /\ diskBefore = NoDisk
    /\ second = FALSE /\ failed = {}
    /\ TranslateIdle

NextStore == ReadFile \/ WriteCatalog \/ ReadBack

SpecStore == InitStore /\ [][NextStore]_vars

\* ------------------------------------------------------------------------
\* Claims about the catalog store
\* ------------------------------------------------------------------------
\* The top-level keys other than "attributes" whose value is no string.
NonStringKeys(d) ==
    {k \in MemberKeys(d.members) \ {attributesKey} : LastValue(d.members, k).kind # "string"}

\* C16: reading a catalog in which a top-level key other than "attributes"
\* has a value that is no string (number, object, array, boolean, null)
\* fails, the error names such a key when it is about a message value, and no
\* catalog is returned.
C16_NonStringRejected ==
    (api = "read" /\ pc = "done" /\ NonStringKeys(data) # {}) =>
        /\ rawMessages.err # "nil"
        /\ rawMessages.err = "invalid format for message value"
              => rawMessages.key \in NonStringKeys(data)
        /\ DOMAIN rawMessages.Messages = {}

\* An object of objects of strings.
IsGroups(v) ==
    /\ v.kind = "object"
    /\ \A i \in 1..Len(v.members) :
          /\ v.members[i].value.kind = "object"
          /\ \A j \in 1..Len(v.members[i].value.members) :
                v.members[i].value.members[j].value.kind = "string"

\* C17: a catalog whose "attributes" value is an object of objects of strings
\* (and whose other members are strings) is read without error, with every
\* group kept.
C17_AttributesAreGroups ==
    (api = "read" /\ pc = "done" /\ attributesKey \in MemberKeys(data.members)
        /\ NonStringKeys(data) = {}) =>
        LET v == LastValue(data.members, attributesKey)
        IN (IsGroups(v) /\ v.members # <<>>) =>
              /\ rawMessages.err = "nil"
              /\ DOMAIN rawMessages.Attributes = MemberKeys(v.members)

DocKeys(d) == [i \in 1..Len(d.members) |-> d.members[i].key]
AttributesOf(d) == LastValue(d.members, attributesKey)

\* C18: MarshalJSON writes the top-level keys, and the keys under
\* "attributes", in ascending order, and serializing the same catalog twice
\* gives the same bytes whatever the order the maps are ranged over.
C18_MarshalSorted ==
    /\ \A i \in 1..Len(marshalled) :
          /\ IsSorted(DocKeys(marshalled[i])) /\ NoDuplicates(DocKeys(marshalled[i]))
          /\ IsSorted(DocKeys(AttributesOf(marshalled[i])))
    /\ (api = "write" /\ pc = "twice") => marshalled[1] = marshalled[2]
C18_Witness ==
    /\ api = "write" /\ pc = "twice"
    /\ Len(marshalled[1].members) = 3
    /\ marshalled[1].members[3].key = "zipcode"
    /\ marshalled[1] = marshalled[2]

\* C19: a file MarshalJSON wrote reads back without error, and serializing
\* what was read gives the bytes of the file.
C19_RoundTrip ==
    /\ (api = "write" /\ pc \in {"done", "reread", "rewritten"}) => err = "nil"
    /\ (api = "write" /\ pc = "rewritten") => marshalled[2] = data
C19_Witness ==
    /\ api = "write" /\ pc = "rewritten"
    /\ marshalled[2] = data
    /\ Len(data.members) = 2
    /\ AttributesOf(data).members # <<>>
    /\ \E i \in 1..Len(data.members) :
          data.members[i].value.text \in {<<BACKSLASH, QUOTE>>, <<BACKSLASH, LETTER>>}

\* ------------------------------------------------------------------------
\* Claims about failing writes
\* ------------------------------------------------------------------------
\* C20: a run of msgextractor in which the write of a locale file failed
\* returns an error.
C20_WriteFailureIsFatal ==
    (api = "main" /\ pc = "done" /\ ~second /\ failed # {}) => err # "nil"

\* ------------------------------------------------------------------------
\* The translator: NewTranslator, Translator.Translate
\* ------------------------------------------------------------------------
\* Largest number of entries of the replacements map of a Translate call.
MaxReplacements == 2

COLON == ":"

\* LanguageID: the language and the region, each a text ("" when absent).
LanguageID(language, region) == [Language |-> language, Region |-> region]
NoLanguage == LanguageID(<<>>, <<>>)
\* LanguageID.Empty
Empty(l) == l.Language = <<>> /\ l.Region = <<>>
\* LanguageID.String
LanguageIDString(l) ==
    IF l.Region # <<>> THEN l.Language \o <<"-">> \o l.Region ELSE l.Language

\* The nil *messages.
NilMessages == <<>>

\* The variant of the lookup that tries the language-only id before the exact
\* id.
TranslatorMessagesLanguageFirst(loaded, dflt, fromCtx) ==
    IF Empty(fromCtx) /\ Empty(dflt) THEN NilMessages
    ELSE LET l == IF Empty(fromCtx) THEN dflt ELSE fromCtx
         IN IF l.Language \in DOMAIN loaded THEN l.Language
            ELSE IF LanguageIDString(l) \in DOMAIN loaded THEN LanguageIDString(l)
            ELSE IF ~Empty(dflt) /\ dflt # l /\ LanguageIDString(dflt) \in DOMAIN loaded
                 THEN LanguageIDString(dflt)
            ELSE NilMessages

\* Translator.messages: the id of the catalog used for the language fromCtx
\* of the context, with the catalogs loaded and the default language dflt.
TranslatorMessages(loaded, dflt, fromCtx) ==
    IF Empty(fromCtx) /\ Empty(dflt) THEN NilMessages
    ELSE LET l == IF Empty(fromCtx) THEN dflt ELSE fromCtx
         IN IF LanguageIDString(l) \in DOMAIN loaded THEN LanguageIDString(l)
            ELSE IF l.Language \in DOMAIN loaded THEN l.Language
            ELSE IF ~Empty(dflt) /\ dflt # l /\ LanguageIDString(dflt) \in DOMAIN loaded
                 THEN LanguageIDString(dflt)
            ELSE NilMessages

\* unicode.IsUpper among the characters of the model.
IsUpper(c) == c \in {"E", "N", "S", "U"}

\* The end of the run of letters that starts at position i of s (i - 1 when
\* s[i] is no letter).
RECURSIVE LettersEnd(_, _)
LettersEnd(s, i) ==
    IF i <= Len(s) /\ IsLetter(s[i]) THEN LettersEnd(s, i + 1) ELSE i - 1

\* The end of the groups (\.[A-Za-z]+)* after position e of s.
RECURSIVE GroupsEnd(_, _)
GroupsEnd(s, e) ==
    IF e + 2 <= Len(s) /\ s[e + 1] = "." /\ IsLetter(s[e + 2])
    THEN GroupsEnd(s, LettersEnd(s, e + 2))
    ELSE e

\* messageRe.FindAllString(s, -1) from position i on, for the pattern
\* :[A-Za-z]+(\.[A-Za-z]+)*
RECURSIVE FindAllString(_, _)
FindAllString(s, i) ==
    IF i > Len(s) THEN <<>>
    ELSE IF s[i] = COLON /\ LettersEnd(s, i + 1) > i
         THEN LET e == GroupsEnd(s, LettersEnd(s, i + 1))
              IN <<SubSeq(s, i, e)>> \o FindAllString(s, e + 1)
         ELSE FindAllString(s, i + 1)

\* strings.ToLower
LowerText(s) == [i \in 1..Len(s) |-> ToLower(s[i])]

NoReplacements == [n \in {} |-> <<>>]

\* readfile.go:40-57: the replacements of a message, from the matches in
\* text order; ok = FALSE when a name occurs in both cases.
RECURSIVE ReplacementsFrom(_, _, _)
ReplacementsFrom(matches, i, found) ==
    IF i > Len(matches) THEN [ok |-> TRUE, replacements |-> found]
    ELSE LET replacementKey == LowerText(Tail(matches[i]))
             isUpper == IsUpper(matches[i][2])
         IN IF replacementKey \in DOMAIN found /\ found[replacementKey].isUpper # isUpper
            THEN [ok |-> FALSE, replacements |-> NoReplacements]
            ELSE ReplacementsFrom(matches, i + 1,
                    [n \in DOMAIN found \cup {replacementKey} |->
                        IF n = replacementKey
                        THEN [isUpper |-> isUpper, replacementKey |-> matches[i]]
                        ELSE found[n]])

\* readfile.go:23-62, parseFile on the RawMessages raw.
parseFile(raw) ==
    LET parsed == [k \in DOMAIN raw.Messages |->
                      ReplacementsFrom(FindAllString(raw.Messages[k], 1), 1, NoReplacements)]
    IN IF \E k \in DOMAIN parsed : ~parsed[k].ok
       THEN [ok |-> FALSE, messages |-> <<>>]
       ELSE [ok |-> TRUE,
             messages |-> [messages |-> [k \in DOMAIN parsed |->
                                            [message |-> raw.Messages[k],
                                             replacements |-> parsed[k].replacements]],
                           attributes |-> raw.Attributes]]

\* strings.ReplaceAll for a non-empty old.
RECURSIVE ReplaceAll(_, _, _)
ReplaceAll(s, old, new) ==
    IF Len(s) < Len(old) THEN s
    ELSE IF SubSeq(s, 1, Len(old)) = old
         THEN new \o ReplaceAll(SubSeqFrom(s, Len(old) + 1), old, new)
         ELSE <<Head(s)>> \o ReplaceAll(Tail(s), old, new)

\* The values callers pass: a string, or a value of a kind formatReplacement
\* has no case for.
StringReplacement(v) == [kind |-> "string", v |-> v]
StructReplacement == [kind |-> "struct", v |-> <<>>]
formatReplacement(value) == IF value.kind = "string" THEN value.v ELSE <<>>

\* AttributeKey = "attribute"
AttributeKey == <<"a", "t", "t", "r", "i", "b", "u", "t", "e">>

\* string(key) for the keys of the model.
KeyText(k) == IF k = "welcome" THEN <<"w", "e", "l", "c", "o", "m", "e">>
              ELSE <<"l", "o", "g", "i", "n">>

\* Every order in which the elements of the set S can be met.
RECURSIVE Perms(_)
Perms(S) ==
    IF S = {} THEN {<<>>}
    ELSE UNION {{<<x>> \o p : p \in Perms(S \ {x})} : x \in S}

\* The loop of messages.format from the i-th name of order on.
RECURSIVE FormatFrom(_, _, _, _, _, _)
FormatFrom(m, message, replacements, order, i, translationMessage) ==
    IF i > Len(order) THEN translationMessage
    ELSE LET replacementName == order[i]
             replacement == message.replacements[replacementName]
             given == IF replacementName \in DOMAIN replacements
                      THEN formatReplacement(replacements[replacementName])
                      ELSE <<>>
             attribute == IF replacementName = AttributeKey /\ given \in DOMAIN m.attributes
                          THEN m.attributes[given]
                          ELSE given
             formattedValue == IF attribute # <<>> /\ replacement.isUpper
                               THEN <<ToUpper(Head(attribute))>> \o Tail(attribute)
                               ELSE attribute
         IN FormatFrom(m, message, replacements, order, i + 1,
                       ReplaceAll(translationMessage, replacement.replacementKey,
                                  formattedValue))

\* messages.format; order is the order in which ranging over
\* message.replacements gives the names.
format(m, translationKey, replacements, order) ==
    IF translationKey \notin DOMAIN m.messages THEN KeyText(translationKey)
    ELSE LET message == m.messages[translationKey]
         IN FormatFrom(m, message, replacements, order, 1, message.message)

\* The orders ranging over the replacements of the message may take.
FormatOrders(m, translationKey) ==
    IF translationKey \notin DOMAIN m.messages THEN {<<>>}
    ELSE Perms(DOMAIN m.messages[translationKey].replacements)

\* Translator.Translate
Translate ==
    /\ api = "translate"
    /\ pc = "start"
    /\ LET id == TranslatorMessages(languages, defaultLanguage, ctxLang)
       IN /\ selected' = id
          /\ IF id = NilMessages
             THEN out' = KeyText(request.key)
             ELSE \E order \in FormatOrders(languages[id], request.key) :
                     out' = format(languages[id], request.key, request.replacements, order)
    /\ pc' = "done"
    /\ UNCHANGED <<api, tree, translations, result, err, defaultLanguage, disk,
                   diskBefore, second, failed, entries, listed, data, rawMessages,
                   marshalled, languages, ctxLang, request>>

\* The catalog files of the model: no message, or the message "welcome" with
\* two placeholders of which one is a prefix of the other, with two
\* placeholders, or with a capitalized placeholder.
MessageTexts ==
    {<<COLON, "u", "-", COLON, "u", "n">>, <<COLON, "u", "-", COLON, "n">>,
     <<COLON, "U">>}
RawCatalogs ==
    {[Messages |-> NoMessages, Attributes |-> NoMessages]}
    \cup {[Messages |-> [k \in {"welcome"} |-> t], Attributes |-> NoMessages] :
             t \in MessageTexts}

\* The language ids of the catalog files, the languages of the contexts and
\* the default languages of the model.
En == LanguageID(<<"e", "n">>, <<>>)
EnUS == LanguageID(<<"e", "n">>, <<"U", "S">>)
Nl == LanguageID(<<"n", "l">>, <<>>)
LoadableIds == {LanguageIDString(l) : l \in {En, EnUS, Nl}}

\* The replacement maps of the model: at most MaxReplacements entries.
PlaceholderNames == {<<"u">>, <<"n">>, <<"u", "n">>}
ReplacementValues ==
    {StringReplacement(<<"s">>), StringReplacement(<<COLON, "n">>), StructReplacement}
ReplacementMaps ==
    {r \in UNION {[ns -> ReplacementValues] : ns \in SUBSET PlaceholderNames} :
        Cardinality(DOMAIN r) <= MaxReplacements}

InitTranslate ==
    /\ api = "translate"
    /\ pc = "start"
    /\ \E ids \in SUBSET LoadableIds : \E raw \in [ids -> RawCatalogs] :
          /\ \A id \in ids : parseFile(raw[id]).ok
          /\ languages = [id \in ids |-> parseFile(raw[id]).messages]
    /\ defaultLanguage \in {NoLanguage, EnUS, Nl}
    /\ ctxLang \in {NoLanguage, EnUS, Nl}
    /\ request \in {[key |-> "welcome", replacements |-> r] : r \in ReplacementMaps}
    /\ selected = <<>> /\ out = <<>>
    /\ tree = <<>> /\ translations = <<>> /\ result = <<>> /\ err = "nil"
    /\ disk = NoDisk /\ diskBefore = NoDisk /\ second = FALSE /\ failed = {}
    /\ entries = <<>> /\ listed = <<>> /\ data = <<>> /\ rawMessages = <<>>
    /\ marshalled = <<>>

NextTranslate == Translate

SpecTranslate == InitTranslate /\ [][NextTranslate]_vars

\* ------------------------------------------------------------------------
\* Claims about the translator
\* ------------------------------------------------------------------------
\* The strings format may return for the catalog id.
Outputs(id) ==
    {format(languages[id], request.key, request.replacements, order) :
        order \in FormatOrders(languages[id], request.key)}

\* C21: for a context with a language, Translate uses the catalog of the
\* exact language-region id when one is loaded, and the catalog of the
\* language-only id when that one is loaded and the exact one is not.
C21_ExactThenLanguage ==
    (api = "translate" /\ pc = "done" /\ ~Empty(ctxLang)) =>
        /\ LanguageIDString(ctxLang) \in DOMAIN languages =>
              selected = LanguageIDString(ctxLang) /\ out \in Outputs(selected)
        /\ (LanguageIDString(ctxLang) \notin DOMAIN languages
               /\ ctxLang.Language \in DOMAIN languages) =>
              selected = ctxLang.Language /\ out \in Outputs(selected)
C21_Witness ==
    /\ api = "translate" /\ pc = "done"
    /\ ctxLang = EnUS
    /\ DOMAIN languages = {LanguageIDString(En), LanguageIDString(Nl)}
    /\ selected = LanguageIDString(En)
    /\ languages[selected].messages # languages[LanguageIDString(Nl)].messages
    /\ out = <<"S">>

\* C22: with a default language, a context without a language, or with a
\* language that has neither an exact nor a language-only catalog, is served
\* from the catalog of the default language, found by its exact id and then
\* by its language-only id; the key is returned only when the default
\* language has no catalog either.
C22_DefaultWithFallback ==
    (/\ api = "translate" /\ pc = "done"
     /\ ~Empty(defaultLanguage)
     /\ \/ Empty(ctxLang)
        \/ /\ LanguageIDString(ctxLang) \notin DOMAIN languages
           /\ ctxLang.Language \notin DOMAIN languages) =>
        IF LanguageIDString(defaultLanguage) \in DOMAIN languages
        THEN selected = LanguageIDString(defaultLanguage)
        ELSE IF defaultLanguage.Language \in DOMAIN languages
        THEN selected = defaultLanguage.Language
        ELSE selected = NilMessages /\ out = KeyText(request.key)

\* ------------------------------------------------------------------------
\* Extraction from calls with several marker-typed parameters
\* ------------------------------------------------------------------------
\* Largest number of statements of the directory.
MaxCalls == 2

\* Calls of Pair with literal arguments and with converted variables, and
\* calls with one key.
CallForms ==
    {Form("PairLit", "login", "zipcode"), Form("PairConv", "login", "zipcode"),
     Form("PairConv", "zipcode", "login"), Form("DirectLit", "welcome", ""),
     Form("MethodLit", "welcome", "")}

RECURSIVE CallSeqs(_)
CallSeqs(n) ==
    IF n = 0 THEN {<<>>}
    ELSE CallSeqs(n - 1) \cup
         {Append(s, f) : s \in {t \in CallSeqs(n - 1) : Len(t) = n - 1}, f \in CallForms}

\* One directory of at most MaxCalls statements, or one that does not load
\* cleanly.
CallTrees ==
    {<<[load |-> "ok", forms |-> fs]>> : fs \in CallSeqs(MaxCalls)}
    \cup {<<[load |-> l, forms |-> <<>>]>> : l \in LoadStatus \ {"ok"}}

InitCalls ==
    /\ api \in {"lib", "cli"}
    /\ tree \in CallTrees
    /\ pc = "start"
    /\ translations = <<>>
    /\ result = <<>>
    /\ err = "nil"
    /\ defaultLanguage = ""
    /\ disk = NoDisk
    /\ diskBefore = NoDisk
    /\ second = FALSE
    /\ failed = {}
    /\ StoreIdle

SpecCalls == InitCalls /\ [][NextExtract]_vars

\* C23: every marker-typed parameter of a call whose argument resolves
\* contributes its key: the keys of both arguments of a call of Pair are in
\* the list returned.
C23_EveryKeyParameter ==
    Succeeded("lib") =>
        \A f \in Range(TreeForms(tree)) :
            f.form \in {"PairLit", "PairConv"} => {f.key, f.key2} \subseteq Range(result)

\* ------------------------------------------------------------------------
\* Claims about load errors
\* ------------------------------------------------------------------------
\* C24: an extraction over a tree in which the only load error of any
\* directory is "build constraints exclude all Go files" does not fail, and
\* such a directory contributes no key; any other load or type error in any
\* directory fails the extraction, which returns no key list.
C24_ExcludedDirIsNotFatal ==
    (pc = "done" /\ api \in {"lib", "cli"}) =>
        /\ LoadFails(tree) => (err # "nil" /\ result = <<>>)
        /\ ~LoadFails(tree) =>
              err \notin {"package load error", "error collection translations"}

\* ------------------------------------------------------------------------
\* Runs of msgextractor with other spellings of the default language
\* ------------------------------------------------------------------------
\* The characters of a -default-lang argument, and the text of a
\* LanguageID.String().
SpellingChars(arg) ==
    CASE arg = "en" -> <<"e", "n">>
      [] arg = "EN" -> <<"E", "N">>
      [] arg = "nl" -> <<"n", "l">>
IdText(id) == IF id = <<"e", "n">> THEN "en" ELSE "nl"
\* ParseLanguage(arg).String()
LocaleOf(arg) == IdText(ParseLanguage(SpellingChars(arg)).id)

InitDefault ==
    /\ api = "main"
    /\ tree \in SyncTrees
    /\ pc = "start"
    /\ translations = <<>>
    /\ result = <<>>
    /\ err = "nil"
    /\ defaultLanguage \in {"EN", "nl"}
    /\ \E present \in CatalogDirs :
          \E E \in SUBSET (MessageSlots(present) \cup TransformSlots(present)) :
             /\ Cardinality(E) <= MaxEntries
             /\ \E raws \in [E \cap MessageSlots(present) -> RawSamples] :
                   disk = [f \in present |-> InitialFile(f, E, raws)]
    /\ diskBefore = disk
    /\ second = FALSE
    /\ failed = {}
    /\ StoreIdle

SpecDefault == InitDefault /\ [][NextSync]_vars

\* C25: a -default-lang argument that parses to the language id of a catalog
\* file of the directory selects that file: the run does not fail with the
\* default language not found.
C25_DefaultSpellingResolved ==
    (/\ api = "main" /\ pc = "done" /\ ~second
     /\ defaultLanguage # ""
     /\ LocaleOf(defaultLanguage) \in DOMAIN TranslationFilesFromDir(diskBefore)) =>
        err # "default language not found"

\* ------------------------------------------------------------------------
\* Claims about the order of reads and writes
\* ------------------------------------------------------------------------
\* The catalog files of the directory the reader cannot decode.
Undecodable(d) == {f \in DOMAIN d : ~RawTranslationsFromFile(d[f]).ok}

\* C26: when a catalog file of the directory cannot be decoded, a run that
\* reaches combineTranslations returns the read error and every file of the
\* directory keeps its bytes: no file is written before every file is read.
C26_ReadBeforeWrite ==
    (api = "main" /\ pc = "done" /\ Undecodable(diskBefore) # {}) =>
        /\ err # "nil"
        /\ disk = diskBefore
C26_Witness ==
    /\ api = "main" /\ pc = "done" /\ second
    /\ err = "reading file"
    /\ Cardinality(DOMAIN disk) = 2
    /\ Cardinality(Undecodable(diskBefore)) = 1
    /\ disk = diskBefore

\* C27: every file a successful run wrote is read back by the catalog
\* reader, and reading it gives each active key with the value chosen for it
\* (the file's own value, else the default catalog's, else the empty text),
\* whatever characters the value holds.
C27_WrittenFilesReadBack ==
    FirstRunSucceeded =>
        \A f \in DOMAIN disk :
            /\ ReadAfter(f).ok
            /\ ReadAfter(f).Messages =
                  [k \in Range(result) |->
                      ChooseValue(ReadBefore(f).Messages, k, defaultLanguage # "",
                                  IF defaultLanguage # "" THEN DefaultBefore.Messages
                                  ELSE NoMessages)]

\* ------------------------------------------------------------------------
\* Claims about decoding what MarshalJSON wrote
\* ------------------------------------------------------------------------
\* C28: decoding the output of MarshalJSON for a catalog gives the Messages
\* and the Attributes of that catalog, also when Messages holds the key
\* "attributes".
C28_DecodeOfMarshalIsSame ==
    [][(api = "write" /\ pc = "written" /\ pc' \in {"reread", "done"}) =>
          /\ err' = "nil"
          /\ rawMessages'.Messages = rawMessages.Messages
          /\ rawMessages'.Attributes = rawMessages.Attributes]_vars

\* ------------------------------------------------------------------------
\* Claims about formatting
\* ------------------------------------------------------------------------
\* C29: for a fixed catalog, key and replacement map the string Translate
\* returns is the same whatever the order in which the placeholders of the
\* message are substituted.
C29_TranslateDeterministic ==
    (api = "translate" /\ pc = "done" /\ selected # NilMessages) =>
        \A o \in Outputs(selected) : out = o

\* ------------------------------------------------------------------------
\* Claims about the entries of the listing
\* ------------------------------------------------------------------------
\* The catalog files of the directory listed.
FilesOf(es) == {es[i].name : i \in {j \in 1..Len(es) : ~es[j].isDir}}

\* C30: a listing that succeeds has one entry for every catalog file of the
\* directory: no two file names are listed under the same language id.
C30_OneEntryPerFile ==
    (api = "list" /\ pc = "done" /\ err = "nil") =>
        /\ Cardinality(DOMAIN listed) = Cardinality(FilesOf(entries))
        /\ {listed[id] : id \in DOMAIN listed} = FilesOf(entries)

====
